---- MODULE Spec2Model ----
(***************************************************************************)
(* Model of atlas/datasets/sample.py: the two manifest builders            *)
(* prepare_sample_scene (per-frame pose files) and prepare_test_scene      *)
(* (one pose.txt table), run against a small file system.                  *)
(*                                                                         *)
(* A path is the tuple of its components (os.path.join).  A text file is   *)
(* the sequence of its lines; a line of pose.txt is the sequence of its    *)
(* lexemes (tokens and the separator characters " ", "\t", "\n"); a line   *)
(* of a numeric file is the sequence of its tokens.  A float is named by   *)
(* the text json.dump writes for it.  info.json is the sequence of the     *)
(* JSON documents written into it (<<>>: an empty, just truncated file).   *)
(***************************************************************************)
EXTENDS Integers, Sequences, FiniteSets, TLC

VARIABLES
    builder,     \* "sample": prepare_sample_scene, "test": prepare_test_scene
    path_meta,   \* argument path_meta
    dirs,        \* file system: directory path -> its listing (os.listdir order)
    files,       \* file system: file path -> content
    pc,          \* position in the function body
    err,         \* the exception that left the call, "" if none
    data,        \* local data
    intrinsics,  \* local intrinsics (<<>>: not bound yet)
    frame_ids,   \* local frame_ids
    poses,       \* local poses (prepare_test_scene)
    lines,       \* f.readlines() (prepare_test_scene)
    i,           \* index of the running loop (1-based)
    origin,      \* history: for each appended frame, the loop index i that appended it
    wrote,       \* history: info.json was opened for writing in this call
    run,         \* which call this is (the caller runs the builder twice)
    files0,      \* history: the files when the current call started
    firstOut     \* history: info.json when the first call ended

vars == <<builder, path_meta, dirs, files, pc, err, data, intrinsics, frame_ids,
          poses, lines, i, origin, wrote, run, files0, firstOut>>

\* ---------------------------------------------------------------- bounds

MaxFrames == 2      \* most entries of scene/color (variant A)
MaxLines == 2       \* most lines of pose.txt (variant B)
MaxRuns == 2        \* calls the caller makes in a row

\* ------------------------------------------------------------- arguments

scene == "scene0000_00"
path == "data"
Roots == {"data", "meta"}

Join4(a, b, c, d) == <<a, b, c, d>>
Join3(a, b, c) == <<a, b, c>>

InfoPath == Join3(path_meta, scene, "info.json")
ColorDir == Join3(path, scene, "color")

\* ------------------------------------------------------- numbers as text

Min(a, b) == IF a < b THEN a ELSE b

\* float(tok): the double a token denotes, "ERR" for a ValueError.
ParseFloat64(tok) ==
    CASE tok = "0" -> "0.0"
      [] tok = "1" -> "1.0"
      [] tok = "2" -> "2.0"
      [] tok = "0.1" -> "0.1"
      [] tok = "1e39" -> "1e+39"
      [] tok = "nan" -> "NaN"
      [] tok = "inf" -> "Infinity"
      [] OTHER -> "ERR"

\* The double rounded to float32 (and widened again by tolist()).
ParseFloat32(tok) ==
    CASE tok = "0.1" -> "0.10000000149011612"
      [] tok = "1e39" -> "Infinity"
      [] OTHER -> ParseFloat64(tok)

isfinite(v) == v \notin {"NaN", "Infinity"}

\* A variant of AllFinite: np.isnan in place of np.isfinite.
AllNotNaN(m) ==
    \A r \in 1..Len(m) : \A c \in 1..Len(m[r]) : m[r][c] # "NaN"

\* np.all(np.isfinite(m)) of a matrix (a sequence of rows).
AllFinite(m) ==
    \A r \in 1..Len(m) : \A c \in 1..Len(m[r]) : isfinite(m[r][c])

\* Python's seq[lo:hi].
Slice(s, lo, hi) == SubSeq(s, lo + 1, Min(hi, Len(s)))

\* reshape(rows, cols) of a flat sequence of rows*cols values.
Reshape(flat, rows, cols) ==
    [r \in 1..rows |-> [c \in 1..cols |-> flat[(r - 1) * cols + c]]]

\* np.loadtxt(file) raises no ValueError: every token is a number.
TxtParses(content) ==
    \A r \in 1..Len(content) : \A c \in 1..Len(content[r]) :
        ParseFloat64(content[r][c]) # "ERR"

\* np.loadtxt(file): the matrix of a numeric text file.
LoadTxt(content) ==
    [r \in 1..Len(content) |->
        [c \in 1..Len(content[r]) |-> ParseFloat64(content[r][c])]]

\* ------------------------------------------------ file names (variant A)

\* os.path.splitext(name)[0]
SplitExtStem(name) ==
    CASE name = "00000001.jpg" -> "00000001"
      [] name = "00000002.jpg" -> "00000002"
      [] name = "1.jpg" -> "1"
      [] name = "00000002.png" -> "00000002"
      [] name = "x.jpg" -> "x"
      [] name = "info.json" -> "info"
      [] OTHER -> name

\* int(stem): -1 stands for a ValueError (no listed name is negative).
IntOf(stem) ==
    CASE stem = "00000001" -> 1
      [] stem = "1" -> 1
      [] stem = "00000002" -> 2
      [] OTHER -> -1

Digit(d) == <<"0", "1", "2", "3", "4", "5", "6", "7", "8", "9">>[d + 1]

RECURSIVE ZeroPad(_, _)
ZeroPad(n, w) == IF w = 0 THEN "" ELSE ZeroPad(n \div 10, w - 1) \o Digit(n % 10)

\* '%08d' % n for 0 <= n < 10^8
Fmt8(n) == ZeroPad(n, 8)

PoseFile(frame_id) == Join4(path, scene, "pose", Fmt8(frame_id) \o ".txt")
ImageFileA(frame_id) == Join4(path, scene, "color", Fmt8(frame_id) \o ".jpg")

RECURSIVE Insert(_, _)
Insert(x, s) ==
    IF s = <<>> THEN <<x>>
    ELSE IF x < Head(s) THEN <<x>> \o s
    ELSE <<Head(s)>> \o Insert(x, Tail(s))

RECURSIVE SortedIds(_)
\* sorted(ids)
SortedIds(ids) ==
    IF ids = <<>> THEN <<>>
    ELSE Insert(ids[Len(ids)], SortedIds(SubSeq(ids, 1, Len(ids) - 1)))

\* ------------------------------------------------------------ file system

Range(s) == {s[k] : k \in 1..Len(s)}

\* os.makedirs(Join(root, sc), exist_ok=True)
MakeDirs(d, root, sc) ==
    LET d1 == IF <<root>> \in DOMAIN d THEN d ELSE (<<root>> :> <<>>) @@ d
        d2 == IF sc \in Range(d1[<<root>>]) THEN d1
              ELSE [d1 EXCEPT ![<<root>>] = Append(@, sc)]
    IN  IF <<root, sc>> \in DOMAIN d2 THEN d2 ELSE (<<root, sc>> :> <<>>) @@ d2

\* The directory entry a newly created file gets.
AddEntry(d, dir, name) ==
    IF name \in Range(d[dir]) THEN d ELSE [d EXCEPT ![dir] = Append(@, name)]

\* A variant of OpenW: open(p, 'a'), which keeps what the file holds.
OpenAppend(f, p) == IF p \in DOMAIN f THEN f ELSE (p :> <<>>) @@ f

\* open(p, 'w'): the file is created, or truncated when it exists.
OpenW(f, p) == (p :> <<>>) @@ f

\* What a file holds: <<>> when absent, <<content>> when present.
Content(f, p) == IF p \in DOMAIN f THEN <<f[p]>> ELSE <<>>

\* ------------------------------------------------------- the input scenes

Ids == {1, 2}
ColorNames == {"00000001.jpg", "00000002.jpg", "1.jpg", "00000002.png", "x.jpg"}

\* Rotation (row-major) and translation tokens of the poses the scenes use.
RTok(kind) ==
    IF kind = "nan"
    THEN <<"nan", "0", "0", "0", "1", "0", "0", "0", "1">>
    ELSE <<"1", "0", "0", "0", "1", "0", "0", "0", "1">>
TTok(kind) ==
    CASE kind = "T" -> <<"1", "2", "0.1">>
      [] kind = "inf" -> <<"0", "0", "inf">>
      [] kind = "big" -> <<"1e39", "0", "0">>
      [] kind = "bad" -> <<"0", "x", "0">>
      [] OTHER -> <<"0", "0", "0">>
KTok(k) ==
    IF k = "K1"
    THEN <<"1", "0", "0", "0", "1", "0", "0", "0", "1">>
    ELSE <<"2", "0", "1", "0", "2", "1", "0", "0", "1">>

\* pose/<id>.txt: four rows of four tokens.
PoseTxt(kind) ==
    [r \in 1..4 |->
        IF r = 4 THEN <<"0", "0", "0", "1">>
        ELSE SubSeq(RTok(kind), 3 * r - 2, 3 * r) \o <<TTok(kind)[r]>>]

IntrinsicsTxt == [r \in 1..3 |-> SubSeq(KTok("K1"), 3 * r - 2, 3 * r)]

\* The sequences of distinct elements of S of length at most n.
RECURSIVE Listings(_, _)
Listings(S, n) ==
    IF n = 0 THEN {<<>>}
    ELSE LET shorter == Listings(S, n - 1)
         IN  shorter \cup {Append(l, x) : l \in shorter, x \in S}

Distinct(s) == \A a, b \in 1..Len(s) : a # b => s[a] # s[b]

\* A manifest an earlier run on other data left behind.
StaleDoc == [dataset |-> "sample", path |-> "elsewhere", scene |-> scene,
             frames |-> <<>>]

EmptyFn == [x \in {} |-> <<>>]

RECURSIVE FnOf(_)
\* The function holding the <<key, value>> pairs of a set.
FnOf(pairs) ==
    IF pairs = {} THEN EmptyFn
    ELSE LET p == CHOOSE q \in pairs : TRUE
         IN  (p[1] :> p[2]) @@ FnOf(pairs \ {p})

\* The files and directories of a variant A scene.
SceneFilesA(hasIntr, poseKind, stale, pm) ==
    FnOf( (IF hasIntr
           THEN {<<Join3(path, scene, "intrinsics.txt"), IntrinsicsTxt>>} ELSE {})
          \cup {<<PoseFile(id), PoseTxt(poseKind[id])>> :
                    id \in {x \in Ids : poseKind[x] # "missing"}}
          \cup (IF stale THEN {<<Join3(pm, scene, "info.json"), <<StaleDoc>> >>}
                ELSE {}) )

SceneDirs(hasColor, listing, stale, pm) ==
    LET base == (<<path>> :> <<scene>>) @@ (<<path, scene>> :> <<>>)
        withColor == IF hasColor THEN (ColorDir :> listing) @@ base ELSE base
    IN  IF stale
        THEN AddEntry(MakeDirs(withColor, pm, scene), <<pm, scene>>, "info.json")
        ELSE withColor

\* ------------------------------------------------------------ the builders

Raise(e) ==
    /\ pc' = "error"
    /\ err' = e

\* A variant of Begin: info.json is opened for writing before the inputs are read.
BeginOpensInfo ==
    /\ pc = "start"
    /\ data' = [dataset |-> "sample", path |-> path, scene |-> scene,
                frames |-> <<>>]
    /\ dirs' = AddEntry(MakeDirs(dirs, path_meta, scene), <<path_meta, scene>>,
                        "info.json")
    /\ files' = OpenW(files, InfoPath)
    /\ wrote' = TRUE
    /\ pc' = IF builder = "sample" THEN "A_intrinsics" ELSE "B_open"
    /\ UNCHANGED <<builder, path_meta, err, intrinsics, frame_ids,
                   poses, lines, i, origin, run, files0, firstOut>>

\* Lines 59-66 and 131-138: the call starts and binds data.
Begin ==
    /\ pc = "start"
    /\ data' = [dataset |-> "sample", path |-> path, scene |-> scene,
                frames |-> <<>>]
    /\ pc' = IF builder = "sample" THEN "A_intrinsics" ELSE "B_open"
    /\ UNCHANGED <<builder, path_meta, dirs, files, err, intrinsics, frame_ids,
                   poses, lines, i, origin, wrote, run, files0, firstOut>>

\* Line 68: intrinsics = np.loadtxt(.../intrinsics.txt)
A_LoadIntrinsics ==
    /\ pc = "A_intrinsics"
    /\ LET p == Join3(path, scene, "intrinsics.txt")
       IN  IF p \notin DOMAIN files
           THEN Raise("FileNotFoundError") /\ UNCHANGED intrinsics
           ELSE IF ~TxtParses(files[p])
           THEN Raise("ValueError") /\ UNCHANGED intrinsics
           ELSE /\ intrinsics' = LoadTxt(files[p])
                /\ pc' = "A_list"
                /\ UNCHANGED err
    /\ UNCHANGED <<builder, path_meta, dirs, files, data, frame_ids, poses,
                   lines, i, origin, wrote, run, files0, firstOut>>

\* Line 71: the ids of the listed names.
ParseIds(names) == [k \in 1..Len(names) |-> IntOf(SplitExtStem(names[k]))]

\* A variant of SortIds: the ids are left in the order of the listing.
SortIdsListed(ids) == ids

\* Line 72
SortIds(ids) == SortedIds(ids)

\* Lines 70-72: list color/, parse the names, sort the ids.
A_ListFrames ==
    /\ pc = "A_list"
    /\ IF ColorDir \notin DOMAIN dirs
       THEN Raise("FileNotFoundError") /\ UNCHANGED <<frame_ids, i>>
       ELSE IF \E k \in 1..Len(dirs[ColorDir]) : ParseIds(dirs[ColorDir])[k] = -1
       THEN Raise("ValueError") /\ UNCHANGED <<frame_ids, i>>
       ELSE /\ frame_ids' = SortIds(ParseIds(dirs[ColorDir]))
            /\ i' = 1
            /\ pc' = "A_loop"
            /\ UNCHANGED err
    /\ UNCHANGED <<builder, path_meta, dirs, files, data, intrinsics, poses,
                   lines, origin, wrote, run, files0, firstOut>>

\* Lines 84-88: the frame record of variant A.
FrameA(frame_id, pose) ==
    [file_name_image |-> ImageFileA(frame_id),
     intrinsics |-> intrinsics,
     pose |-> pose]

\* Lines 74-89: one iteration of the frame loop.
A_Frame ==
    /\ pc = "A_loop"
    /\ i <= Len(frame_ids)
    /\ LET frame_id == frame_ids[i]
           p == PoseFile(frame_id)
       IN  IF p \notin DOMAIN files
           THEN Raise("FileNotFoundError") /\ UNCHANGED <<data, origin, i>>
           ELSE IF ~TxtParses(files[p])
           THEN Raise("ValueError") /\ UNCHANGED <<data, origin, i>>
           ELSE /\ IF ~AllFinite(LoadTxt(files[p]))
                   THEN UNCHANGED <<data, origin>>
                   ELSE /\ data' = [data EXCEPT !.frames =
                                       Append(@, FrameA(frame_id, LoadTxt(files[p])))]
                        /\ origin' = Append(origin, i)
                /\ i' = i + 1
                /\ UNCHANGED <<pc, err>>
    /\ UNCHANGED <<builder, path_meta, dirs, files, intrinsics, frame_ids, poses,
                   lines, wrote, run, files0, firstOut>>

\* Line 74 / 160: the frame loop is exhausted.
LoopEnd ==
    /\ pc \in {"A_loop", "B_loop"}
    /\ i > Len(frame_ids)
    /\ pc' = "open"
    /\ UNCHANGED <<builder, path_meta, dirs, files, err, data, intrinsics,
                   frame_ids, poses, lines, i, origin, wrote, run, files0, firstOut>>

\* A variant of OpenInfo: a manifest without frames is not written.
OpenInfoSkipEmpty ==
    /\ pc = "open"
    /\ IF data.frames = <<>>
       THEN /\ pc' = "done"
            /\ UNCHANGED <<dirs, files, wrote>>
       ELSE /\ dirs' = AddEntry(MakeDirs(dirs, path_meta, scene),
                                <<path_meta, scene>>, "info.json")
            /\ files' = OpenW(files, InfoPath)
            /\ wrote' = TRUE
            /\ pc' = "dump"
    /\ UNCHANGED <<builder, path_meta, err, data, intrinsics, frame_ids, poses,
                   lines, i, origin, run, files0, firstOut>>

\* Lines 91-92 / 177-178: os.makedirs(...), then open(.../info.json, 'w').
OpenInfo ==
    /\ pc = "open"
    /\ dirs' = AddEntry(MakeDirs(dirs, path_meta, scene), <<path_meta, scene>>,
                        "info.json")
    /\ files' = OpenW(files, InfoPath)
    /\ wrote' = TRUE
    /\ pc' = "dump"
    /\ UNCHANGED <<builder, path_meta, err, data, intrinsics, frame_ids, poses,
                   lines, i, origin, run, files0, firstOut>>

\* Line 92 / 178: json.dump(data, file); the call returns.
DumpInfo ==
    /\ pc = "dump"
    /\ files' = [files EXCEPT ![InfoPath] = Append(@, data)]
    /\ pc' = "done"
    /\ UNCHANGED <<builder, path_meta, dirs, err, data, intrinsics, frame_ids,
                   poses, lines, i, origin, wrote, run, files0, firstOut>>

\* ----------------------------------------------- prepare_test_scene only

RECURSIVE StripLeft(_, _)
StripLeft(s, ch) ==
    IF s # <<>> /\ Head(s) = ch THEN StripLeft(Tail(s), ch) ELSE s

RECURSIVE StripRight(_, _)
StripRight(s, ch) ==
    IF s # <<>> /\ s[Len(s)] = ch THEN StripRight(SubSeq(s, 1, Len(s) - 1), ch)
    ELSE s

\* Line 145: line.strip('\n')
Strip(s, ch) == StripRight(StripLeft(s, ch), ch)

RECURSIVE SplitAt(_, _)
\* str.split(ch): the words between the occurrences of ch, empty words kept.
SplitAt(s, ch) ==
    IF s = <<>> THEN <<"">>
    ELSE LET rest == SplitAt(SubSeq(s, 1, Len(s) - 1), ch)
             last == s[Len(s)]
         IN  IF last = ch THEN Append(rest, "")
             ELSE [rest EXCEPT ![Len(rest)] = @ \o last]

\* Line 146: line.split(" ")
SplitWords(line) == SplitAt(line, " ")

\* Lines 145-146
WordsOf(rawLine) == SplitWords(Strip(rawLine, "\n"))

\* np.array(ws, np.float32).reshape(rows, cols) raises no ValueError.
ArrayOK(ws, rows, cols) ==
    /\ \A k \in 1..Len(ws) : ParseFloat32(ws[k]) # "ERR"
    /\ Len(ws) = rows * cols

\* np.array(ws, np.float32).reshape(rows, cols)
Array32(ws, rows, cols) ==
    Reshape([k \in 1..Len(ws) |-> ParseFloat32(ws[k])], rows, cols)

\* Lines 147-149 raise no ValueError on these words.
LineOK(words) ==
    /\ ArrayOK(Slice(words, 1, 10), 3, 3)
    /\ ArrayOK(Slice(words, 10, 19), 3, 3)
    /\ ArrayOK(Slice(words, 19, 22), 3, 1)

\* Line 147
LineIntrinsics(words) == Array32(Slice(words, 1, 10), 3, 3)

\* Lines 148-151: P = [[R | t], [0, 0, 0, 1]]
LinePose(words) ==
    LET R == Array32(Slice(words, 10, 19), 3, 3)
        t == Array32(Slice(words, 19, 22), 3, 1)
    IN  [r \in 1..4 |->
            IF r = 4 THEN <<"0.0", "0.0", "0.0", "1.0">> ELSE R[r] \o t[r]]

\* Line 141: open(.../pose.txt); lines 142-144: poses, frame_ids, f.readlines()
B_Open ==
    /\ pc = "B_open"
    /\ LET p == Join3(path, scene, "pose.txt")
       IN  IF p \notin DOMAIN files
           THEN Raise("FileNotFoundError") /\ UNCHANGED <<lines, poses, frame_ids>>
           ELSE /\ lines' = files[p]
                /\ poses' = EmptyFn
                /\ frame_ids' = <<>>
                /\ pc' = "B_read"
                /\ UNCHANGED err
    /\ UNCHANGED <<builder, path_meta, dirs, files, data, intrinsics, i, origin,
                   wrote, run, files0, firstOut>>

\* Line 152: poses[words[0]] = P
PutPose(d, key, P) == (key :> P) @@ d

\* Lines 144-153: one line of pose.txt.
B_ParseLine ==
    /\ pc = "B_read"
    /\ lines # <<>>
    /\ \E words \in {WordsOf(Head(lines))} :
        IF ~LineOK(words)
        THEN Raise("ValueError") /\ UNCHANGED <<lines, poses, frame_ids, intrinsics>>
        ELSE /\ intrinsics' = LineIntrinsics(words)
             /\ poses' = PutPose(poses, words[1], LinePose(words))
             /\ frame_ids' = Append(frame_ids, words[1])
             /\ lines' = Tail(lines)
             /\ UNCHANGED <<pc, err>>
    /\ UNCHANGED <<builder, path_meta, dirs, files, data, i, origin, wrote, run,
                   files0, firstOut>>

\* Line 144: no line is left; the second loop starts (line 160).
B_ReadEnd ==
    /\ pc = "B_read"
    /\ lines = <<>>
    /\ pc' = "B_loop"
    /\ i' = 1
    /\ UNCHANGED <<builder, path_meta, dirs, files, err, data, intrinsics,
                   frame_ids, poses, lines, origin, wrote, run, files0, firstOut>>

ImageFileB(frame_id) == Join4(path, scene, "color", frame_id)

\* A variant of FrameIntrinsicsB: each frame is given its own line's intrinsics.
FrameIntrinsicsOwn(k) ==
    LineIntrinsics(WordsOf(files[Join3(path, scene, "pose.txt")][k]))

\* Line 172: the intrinsics the frame at loop index k is given.
FrameIntrinsicsB(k) == intrinsics

\* Line 164: the pose the frame at loop index k is given.
FramePoseB(k) == poses[frame_ids[k]]

\* Lines 160-175: one iteration of the frame loop.
B_Frame ==
    /\ pc = "B_loop"
    /\ i <= Len(frame_ids)
    /\ LET frame_id == frame_ids[i]
           pose == FramePoseB(i)
       IN  IF ~AllFinite(pose)
           THEN UNCHANGED <<data, origin>>
           ELSE /\ data' = [data EXCEPT !.frames = Append(@,
                               [file_name_image |-> ImageFileB(frame_id),
                                intrinsics |-> FrameIntrinsicsB(i),
                                pose |-> pose])]
                /\ origin' = Append(origin, i)
    /\ i' = i + 1
    /\ UNCHANGED <<builder, path_meta, dirs, files, pc, err, intrinsics, frame_ids,
                   poses, lines, wrote, run, files0, firstOut>>

\* ------------------------------------------------ the lines of pose.txt

LineKs == {"K1", "K2"}
LinePoseKinds == {"I", "nan"}

Fields(tok, k, kind) == <<tok>> \o KTok(k) \o RTok(kind) \o TTok(kind)

RECURSIVE JoinFields(_, _)
\* The fields with their separators: "tab": tabs; "double": two spaces after
\* the frame token; otherwise single spaces.
JoinFields(fs, style) ==
    IF Len(fs) = 1 THEN fs
    ELSE LET n == Len(fs) - 1
             sep == CASE style = "tab" -> <<"\t">>
                      [] style = "double" /\ n = 1 -> <<" ", " ">>
                      [] OTHER -> <<" ">>
         IN  JoinFields(SubSeq(fs, 1, n), style) \o sep \o <<fs[n + 1]>>

\* A line as readlines() returns it ("trail": a space before the newline).
MkLine(fs, style) ==
    JoinFields(fs, style) \o (IF style = "trail" THEN <<" ">> ELSE <<>>) \o <<"\n">>

PoseLines ==
    {MkLine(Fields("a.jpg", k, kind), "space") : k \in LineKs, kind \in LinePoseKinds}
    \cup {MkLine(Fields("b.jpg", "K2", kind), "space") : kind \in LinePoseKinds}
    \cup {MkLine(Fields("a.jpg", "K1", kind), "space") : kind \in {"T", "big", "bad"}}
    \cup {MkLine(Fields("a.jpg", "K1", "T"), style) : style \in {"tab", "double", "trail"}}
    \cup {MkLine(SubSeq(Fields("a.jpg", "K1", "I"), 1, 21), "space")}

SceneFilesB(hasPose, ls, stale, pm) ==
    FnOf( (IF hasPose THEN {<<Join3(path, scene, "pose.txt"), ls>>} ELSE {})
          \cup (IF stale THEN {<<Join3(pm, scene, "info.json"), <<StaleDoc>> >>}
                ELSE {}) )

\* --------------------------------------------------------- specification

NoData == [dataset |-> "", path |-> "", scene |-> "", frames |-> <<>>]

Locals0 ==
    /\ pc = "start"
    /\ err = ""
    /\ data = NoData
    /\ intrinsics = <<>>
    /\ frame_ids = <<>>
    /\ poses = EmptyFn
    /\ lines = <<>>
    /\ i = 1
    /\ origin = <<>>
    /\ wrote = FALSE

PoseFileKinds == {"missing", "I", "nan", "inf", "bad"}

InitA ==
    \E hasIntr \in BOOLEAN, hasColor \in BOOLEAN, stale \in BOOLEAN, pm \in Roots,
       listing \in {l \in Listings(ColorNames, MaxFrames) : Distinct(l)},
       poseKind \in [Ids -> PoseFileKinds] :
        /\ hasColor \/ listing = <<>>
        /\ stale => pm # path
        /\ builder = "sample"
        /\ path_meta = pm
        /\ dirs = SceneDirs(hasColor, listing, stale, pm)
        /\ files = SceneFilesA(hasIntr, poseKind, stale, pm)

InitB ==
    \E hasPose \in BOOLEAN, stale \in BOOLEAN, pm \in Roots,
       ls \in Listings(PoseLines, MaxLines) :
        /\ hasPose \/ ls = <<>>
        /\ stale => pm # path
        /\ builder = "test"
        /\ path_meta = pm
        /\ dirs = SceneDirs(FALSE, <<>>, stale, pm)
        /\ files = SceneFilesB(hasPose, ls, stale, pm)

Init ==
    /\ InitA \/ InitB
    /\ Locals0
    /\ run = 1
    /\ files0 = files
    /\ firstOut = <<>>

\* The caller runs the same builder again with the same arguments.
Restart ==
    /\ pc \in {"done", "error"}
    /\ run < MaxRuns
    /\ run' = run + 1
    /\ firstOut' = IF run = 1 THEN Content(files, InfoPath) ELSE firstOut
    /\ files0' = files
    /\ pc' = "start"
    /\ err' = ""
    /\ data' = NoData
    /\ intrinsics' = <<>>
    /\ frame_ids' = <<>>
    /\ poses' = EmptyFn
    /\ lines' = <<>>
    /\ i' = 1
    /\ origin' = <<>>
    /\ wrote' = FALSE
    /\ UNCHANGED <<builder, path_meta, dirs, files>>

Next ==
    \/ Begin
    \/ A_LoadIntrinsics
    \/ A_ListFrames
    \/ A_Frame
    \/ B_Open
    \/ B_ParseLine
    \/ B_ReadEnd
    \/ B_Frame
    \/ LoopEnd
    \/ OpenInfo
    \/ DumpInfo
    \/ Restart

Spec == Init /\ [][Next]_vars

\* ------------------------------------------------------------- properties

PoseTxtPath == Join3(path, scene, "pose.txt")
IntrinsicsPath == Join3(path, scene, "intrinsics.txt")

Done == pc = "done"
Frames == data.frames

\* A matrix with a NaN or Inf element.
NonFinite(m) ==
    \E r \in 1..Len(m) : \E c \in 1..Len(m[r]) : m[r][c] \in {"NaN", "Infinity"}

\* The input frames of the scene: the listed color files (variant A), the
\* lines of pose.txt (variant B).
Listed == dirs[ColorDir]
FileLines == files[PoseTxtPath]
InputCount == IF builder = "sample" THEN Len(Listed) ELSE Len(FileLines)

\* The own pose of the k-th input frame, in the order the builder visits them:
\* the pose file of the k-th smallest listed id, or the k-th line's R and t.
OwnPose(k) ==
    IF builder = "sample" THEN LoadTxt(files[PoseFile(frame_ids[k])])
    ELSE LinePose(WordsOf(FileLines[k]))

Dropped == {k \in 1..InputCount : k \notin Range(origin)}
NonFiniteInputs == {k \in 1..InputCount : NonFinite(OwnPose(k))}

\* C1: when a call completes, an input frame is absent from the manifest
\* exactly if its own pose has a non-finite element, so the number of absent
\* frames is the number of input frames with a non-finite pose.
C1_DroppedIffNonFinite ==
    Done =>
        /\ \A k \in 1..InputCount : (k \in Dropped) <=> NonFinite(OwnPose(k))
        /\ InputCount - Len(Frames) = Cardinality(NonFiniteInputs)

\* The documents info.json holds.
Written == IF InfoPath \in DOMAIN files THEN files[InfoPath] ELSE <<>>

\* C2: at every point of a run, every frame appended to data['frames'] and
\* every frame of a manifest in info.json has a pose with finite elements only.
C2_FinitePoses ==
    /\ \A j \in 1..Len(Frames) : ~NonFinite(Frames[j].pose)
    /\ \A d \in 1..Len(Written) : \A j \in 1..Len(Written[d].frames) :
           ~NonFinite(Written[d].frames[j].pose)

C2_Witness ==
    /\ Done
    /\ Written = <<data>>
    /\ Len(Frames) >= 1
    /\ \E k \in 1..InputCount : k \in Dropped /\ "Infinity" \in Range(OwnPose(k)[3])

Count(s, x) == Cardinality({k \in 1..Len(s) : s[k] = x})

\* The id whose zero-padded .jpg path an image path of variant A is.
IdOfImage(p) == CHOOSE id \in Ids : p = Join4(path, scene, "color", Fmt8(id) \o ".jpg")

FrameIdsOfManifest == [j \in 1..Len(Frames) |-> IdOfImage(Frames[j].file_name_image)]
ListedIds == [k \in 1..Len(Listed) |-> IntOf(SplitExtStem(Listed[k]))]

\* C3: a scene whose N input frames all have finite poses yields N frames, in
\* ascending numeric order of the listed ids (variant A) or in the order of
\* the lines of pose.txt (variant B).
C3_CountAndOrder ==
    (Done /\ NonFiniteInputs = {}) =>
        /\ Len(Frames) = InputCount
        /\ builder = "sample" =>
              /\ \A id \in Ids : Count(FrameIdsOfManifest, id) = Count(ListedIds, id)
              /\ \A a, b \in 1..Len(Frames) :
                     a < b => FrameIdsOfManifest[a] <= FrameIdsOfManifest[b]
        /\ builder = "test" =>
              \A j \in 1..Len(Frames) :
                  Frames[j].file_name_image =
                      Join4(path, scene, "color", WordsOf(FileLines[j])[1])

C3_Witness ==
    /\ Done
    /\ builder = "sample"
    /\ NonFiniteInputs = {}
    /\ Len(Listed) = 2
    /\ ListedIds[1] > ListedIds[2]
    /\ Len(Frames) = 2

\* C4: when a call ends in a FileNotFoundError or ValueError, it has not
\* opened info.json for writing, and info.json is as it was when the call
\* started: not created, not truncated, not written.
C4_NoWriteOnError ==
    pc = "error" =>
        /\ err \in {"FileNotFoundError", "ValueError"}
        /\ ~wrote
        /\ Content(files, InfoPath) = Content(files0, InfoPath)

C4_Witness ==
    /\ pc = "error"
    /\ builder = "sample"
    /\ err = "FileNotFoundError"
    /\ Len(Frames) >= 1
    /\ InfoPath \in DOMAIN files

\* C5: in variant B every frame of the manifest has the pose [[R | t],
\* [0, 0, 0, 1]] of fields 10..21 of the line it originates from, and an image
\* path ending in that line's field 0.
C5_PoseOfOwnLine ==
    (Done /\ builder = "test") =>
        \A j \in 1..Len(Frames) :
            LET own == WordsOf(FileLines[origin[j]])
            IN  /\ Frames[j].pose = LinePose(own)
                /\ Frames[j].file_name_image[4] = own[1]

\* C6: in variant B every frame carries the intrinsics of fields 1..9 of the
\* last line of pose.txt, whether or not that line's frame was kept.
C6_LastLineIntrinsics ==
    builder = "test" =>
        \A j \in 1..Len(Frames) :
            Frames[j].intrinsics =
                Array32(Slice(WordsOf(FileLines[Len(FileLines)]), 1, 10), 3, 3)

C6_Witness ==
    /\ Done
    /\ builder = "test"
    /\ Len(FileLines) = 2
    /\ origin = <<1>>
    /\ Array32(Slice(WordsOf(FileLines[1]), 1, 10), 3, 3) # Frames[1].intrinsics
    /\ Written = <<data>>

\* A scene that is complete and has no input frame with a finite pose.
ZeroValidPoses ==
    IF builder = "sample"
    THEN /\ IntrinsicsPath \in DOMAIN files
         /\ ColorDir \in DOMAIN dirs
         /\ \A k \in 1..Len(Listed) :
               /\ ListedIds[k] # -1
               /\ PoseFile(ListedIds[k]) \in DOMAIN files
               /\ TxtParses(files[PoseFile(ListedIds[k])])
               /\ NonFinite(LoadTxt(files[PoseFile(ListedIds[k])]))
    ELSE /\ PoseTxtPath \in DOMAIN files
         /\ \A k \in 1..Len(FileLines) :
               /\ LineOK(WordsOf(FileLines[k]))
               /\ NonFinite(LinePose(WordsOf(FileLines[k])))

EmptyManifest ==
    [dataset |-> "sample", path |-> path, scene |-> scene, frames |-> <<>>]

\* C7: on a scene with no input frame, or with non-finite poses only, the call
\* raises nothing, and when it has returned info.json holds one manifest with
\* dataset, path, scene and an empty frames list.
C7_EmptyManifest ==
    (pc \in {"done", "error"} /\ ZeroValidPoses) =>
        /\ Done
        /\ err = ""
        /\ Content(files, InfoPath) = <<<<EmptyManifest>>>>

C7_Witness ==
    /\ Done
    /\ ZeroValidPoses
    /\ InputCount >= 1
    /\ Content(files, InfoPath) = <<<<EmptyManifest>>>>
    /\ Content(files0, InfoPath) = <<<<StaleDoc>>>>

\* C8: when the builder is run again with the same arguments on the tree the
\* first run left, info.json ends as the first run left it, also when
\* path_meta is path.
C8_Idempotent ==
    (run >= 2 /\ pc \in {"done", "error"}) => Content(files, InfoPath) = firstOut

C8_Witness ==
    /\ run = 2
    /\ Done
    /\ path_meta = path
    /\ Len(Frames) >= 1
    /\ firstOut = <<<<data>>>>

Whitespace == {" ", "\t", "\n"}

RECURSIVE Tokens(_)
\* The maximal runs of non-whitespace characters of a line (str.split()).
Tokens(s) ==
    IF s = <<>> THEN <<>>
    ELSE LET rest == Tokens(SubSeq(s, 1, Len(s) - 1))
             last == s[Len(s)]
         IN  IF last \in Whitespace THEN rest
             ELSE IF Len(s) > 1 /\ s[Len(s) - 1] \notin Whitespace
             THEN [rest EXCEPT ![Len(rest)] = @ \o last]
             ELSE Append(rest, last)

\* 22 whitespace-separated tokens, the last 21 of them numbers.
TwentyTwoFields(line) ==
    /\ Len(Tokens(line)) = 22
    /\ \A k \in 2..22 : ParseFloat32(Tokens(line)[k]) # "ERR"

\* C9: in variant B a line of 22 tokens separated by spaces or tabs is split
\* into exactly these 22 fields, and a pose.txt of such lines is accepted
\* without error.
C9_WhitespaceTokenized ==
    (builder = "test" /\ PoseTxtPath \in DOMAIN files) =>
        /\ pc = "error" => \E k \in 1..Len(FileLines) : ~TwentyTwoFields(FileLines[k])
        /\ \A k \in 1..Len(frame_ids) :
               TwentyTwoFields(FileLines[k]) => frame_ids[k] = Tokens(FileLines[k])[1]

\* C10: in variant A every frame's file_name_image is the path of a listed
\* color file, and no two frames share a file_name_image.
C10_ImagesAreListed ==
    (Done /\ builder = "sample") =>
        /\ \A j \in 1..Len(Frames) :
               \E k \in 1..Len(Listed) :
                   Frames[j].file_name_image = Join4(path, scene, "color", Listed[k])
        /\ \A a, b \in 1..Len(Frames) :
               a # b => Frames[a].file_name_image # Frames[b].file_name_image

====
